---- MODULE Spec2Model ----
(***************************************************************************)
(* Model of promptbuilder/llm_client/base_client.py: the create_value      *)
(* engine of BaseLLMClient / BaseLLMClientAsync (decoding dispatch and the *)
(* autocomplete continuation loop) and the file cache of CachedLLMClient / *)
(* CachedLLMClientAsync.                                                   *)
(*                                                                         *)
(* Python values.  An Optional[T] is a tuple: None is <<>> and a value x   *)
(* is <<x>>.  A str is a sequence of one-character strings, so that +=     *)
(* and "".join are \o.  Pydantic objects are records.                      *)
(***************************************************************************)
EXTENDS Integers, Sequences, FiniteSets, TLC

VARIABLES
    default_max_tokens, \* self.default_max_tokens of the client objects
    run,                \* engine: one create_value frame per client variant
    responses,          \* engine: what the provider's create returned so far
    cache,              \* cache_dir: cache_path -> file (sequence of tokens)
    crun,               \* cached client: the create_value frame
    client,             \* cached client: the wrapped client's identifier, the variant
    wrapped_calls,      \* calls that reached the wrapped client's create
    last,               \* the last CachedLLMClient.create, as observed
    invocations,        \* create_value invocations made on cached clients
    threads,            \* racing CachedLLMClient.create calls, one per thread
    previous,           \* cached client: the invocations before the current one
    json_call           \* as_json: the text it is called with, what it gave

vars == <<default_max_tokens, run, responses, cache, crun, client,
          wrapped_calls, last, invocations, threads, previous, json_call>>

----------------------------------------------------------------------------
(* Bounds *)

\* Calls to create one create_value invocation may issue.
MaxCalls == 3

\* create_value invocations made on cached clients in one behaviour.
MaxInvocations == 2

\* Threads racing on one cache key.
NumThreads == 3

\* Number of file names the digest can produce.
DigestRange == 2

\* Length of the texts as_json is called with.
MaxTextLen == 4

----------------------------------------------------------------------------
(* Python values *)

None == <<>>

Some(x) == <<x>>

Get(o) == o[1]

\* Python truthiness of an Optional[list] / Optional[object].
Truthy(o) == o # <<>> /\ Get(o) # <<>>

Variants == {"sync", "async"}

TerminalReasons == {"STOP", "MAX_TOKENS"}

RECURSIVE Join(_)
\* "".join(texts)
Join(texts) ==
    IF texts = <<>> THEN <<>> ELSE Head(texts) \o Join(Tail(texts))

\* types.Part(text=..., thought=..., function_call=...)
Part(text, thought, function_call) ==
    [text |-> text, thought |-> thought, function_call |-> function_call]

\* types.Content(parts=..., role=...)
Content(parts, role) == [parts |-> parts, role |-> role]

\* types.Candidate(content=..., finish_reason=...)
Candidate(content, finish_reason) ==
    [content |-> content, finish_reason |-> finish_reason]

\* types.Response(candidates=..., parsed=...)
Response(candidates, parsed) == [candidates |-> candidates, parsed |-> parsed]

\* Python's `not part.thought`: the flag is False or unset.
NotThought(part) == part.thought \in {None, Some(FALSE)}

\* Python's `part.text and part.thought`: non-empty text, flag True.
ThoughtText(part) ==
    /\ part.text # None
    /\ Get(part.text) # <<>>
    /\ part.thought = Some(TRUE)

PlainText(part) == part.text # None /\ NotThought(part)

RECURSIVE TextsOf(_)
TextsOf(parts) ==
    IF parts = <<>> THEN <<>> ELSE <<Get(Head(parts).text)>> \o TextsOf(Tail(parts))

\* Response.text: the concatenation of the non-thought text parts of the
\* first candidate; None when there is no first candidate with parts.
ResponseText(response) ==
    IF ~Truthy(response.candidates) THEN None
    ELSE LET c == Get(response.candidates)[1] IN
         IF ~(c.content # None /\ Truthy(Get(c.content).parts)) THEN None
         ELSE Some(Join(TextsOf(SelectSeq(Get(Get(c.content).parts), PlainText))))

----------------------------------------------------------------------------
(* BaseLLMClient.as_json.  A text is a sequence over Chars: "F" is a code  *)
(* fence (three backticks), "J" the language tag json, "_" a whitespace    *)
(* character, "1" a digit and "a" a letter.  A JSON document over this     *)
(* alphabet is a non-empty run of digits (a number).                       *)

Chars == {"F", "J", "_", "1", "a"}

RECURSIVE LStrip(_)
LStrip(t) == IF t # <<>> /\ Head(t) = "_" THEN LStrip(Tail(t)) ELSE t

RECURSIVE RStrip(_)
RStrip(t) ==
    IF t # <<>> /\ t[Len(t)] = "_" THEN RStrip(SubSeq(t, 1, Len(t) - 1)) ELSE t

\* str.strip()
Strip(t) == RStrip(LStrip(t))

Min(S) == CHOOSE x \in S : \A y \in S : x <= y

Max(S) == CHOOSE x \in S : \A y \in S : x >= y

\* re.search(r"```(?:json\s)?(.*)```", text, re.DOTALL): the leftmost fence
\* opens, the optional tag is consumed when present, and the greedy group
\* runs to the last fence.  None when fewer than two fences occur.
CodeBlockSearch(t) ==
    LET fences == {i \in 1..Len(t) : t[i] = "F"} IN
    IF Cardinality(fences) < 2 THEN None
    ELSE LET i == Min(fences)
             j == Max(fences)
             tagged == j > i + 2 /\ t[i + 1] = "J" /\ t[i + 2] = "_"
         IN  Some(SubSeq(t, IF tagged THEN i + 3 ELSE i + 1, j - 1))

\* json.loads(text, strict=False): whitespace around the document is
\* skipped; the value of a run of digits is the run itself.
JsonLoads(t) ==
    LET d == Strip(t) IN
    IF d # <<>> /\ \A i \in 1..Len(d) : d[i] = "1" THEN Some(d) ELSE None

Returned(value) == [kind |-> "returned", value |-> value, error |-> "none"]

Raised(error) == [kind |-> "raised", value |-> <<>>, error |-> error]

NoResult == [kind |-> "none", value |-> <<>>, error |-> "none"]

\* as_json(text): text is Optional[str] (Response.text may be None).
AsJson(text) ==
    IF text = None THEN Raised("AttributeError")
    ELSE LET t == Strip(Get(text))
             m == CodeBlockSearch(t)
             body == IF m # None THEN Strip(Get(m)) ELSE t
             v == JsonLoads(body)
         IN  IF v = None THEN Raised("ValueError: Failed to parse LLM response as JSON")
             ELSE Returned(Get(v))

\* No call of as_json has been made.
NoJsonCall == [text |-> <<>>, result |-> NoResult]

----------------------------------------------------------------------------
(* BaseLLMClient._append_generated_part *)

FirstCandidate(response) == Get(response.candidates)[1]

\* The parts the comprehensions range over: None unless the first candidate
\* has content with a non-empty part list.
CandidateParts(response) ==
    LET c == FirstCandidate(response) IN
    IF c.content # None /\ Truthy(Get(c.content).parts)
    THEN Some(Get(Get(c.content).parts))
    ELSE None

\* The generated segment: [ok, text, is_thought], or the error raised.
GeneratedSegment(response) ==
    IF ~(Truthy(response.candidates) /\ FirstCandidate(response).content # None)
    THEN [ok |-> FALSE, error |-> "AssertionError", text |-> <<>>, is_thought |-> FALSE]
    ELSE LET parts == CandidateParts(response)
             text_parts == IF parts = None THEN None
                           ELSE Some(SelectSeq(Get(parts), PlainText))
             thought_parts == IF parts = None THEN None
                              ELSE Some(SelectSeq(Get(parts), ThoughtText))
         IN  IF Truthy(text_parts)
             THEN [ok |-> TRUE, error |-> "none",
                   text |-> Join(TextsOf(Get(text_parts))), is_thought |-> FALSE]
             ELSE IF Truthy(thought_parts)
             THEN [ok |-> TRUE, error |-> "none",
                   text |-> Join(TextsOf(Get(thought_parts))), is_thought |-> TRUE]
             ELSE [ok |-> FALSE,
                   error |-> "ValueError: No text or thought found in the response parts.",
                   text |-> <<>>, is_thought |-> FALSE]

\* Mutant: the segment is put in front of the text it is merged into.
MergeSegmentPrepend(messages, response_text, is_thought) ==
    LET n == Len(messages) IN
    IF n > 0 /\ messages[n].role = "model"
    THEN LET parts == messages[n].parts
             k == IF parts = None THEN 0 ELSE Len(Get(parts))
         IN  IF /\ Truthy(parts)
                /\ Get(parts)[k].text # None
                /\ Get(parts)[k].thought = Some(is_thought)
             THEN [messages EXCEPT ![n].parts =
                      Some([Get(parts) EXCEPT ![k].text = Some(response_text \o Get(@))])]
             ELSE [messages EXCEPT ![n].parts =
                      Some((IF Truthy(parts) THEN Get(parts) ELSE <<>>)
                           \o <<Part(Some(response_text), Some(is_thought), None)>>)]
    ELSE Append(messages,
                Content(Some(<<Part(Some(response_text), Some(is_thought), None)>>), "model"))

\* Mutant: the thought flag of the last part is not compared.
MergeSegmentAnyFlag(messages, response_text, is_thought) ==
    LET n == Len(messages) IN
    IF n > 0 /\ messages[n].role = "model"
    THEN LET parts == messages[n].parts
             k == IF parts = None THEN 0 ELSE Len(Get(parts))
         IN  IF /\ Truthy(parts)
                /\ Get(parts)[k].text # None
             THEN [messages EXCEPT ![n].parts =
                      Some([Get(parts) EXCEPT ![k].text = Some(Get(@) \o response_text)])]
             ELSE [messages EXCEPT ![n].parts =
                      Some((IF Truthy(parts) THEN Get(parts) ELSE <<>>)
                           \o <<Part(Some(response_text), Some(is_thought), None)>>)]
    ELSE Append(messages,
                Content(Some(<<Part(Some(response_text), Some(is_thought), None)>>), "model"))

\* Mutant: the role of the last entry is not looked at.
MergeSegmentAnyRole(messages, response_text, is_thought) ==
    LET n == Len(messages) IN
    IF n > 0
    THEN LET parts == messages[n].parts
             k == IF parts = None THEN 0 ELSE Len(Get(parts))
         IN  IF /\ Truthy(parts)
                /\ Get(parts)[k].text # None
                /\ Get(parts)[k].thought = Some(is_thought)
             THEN [messages EXCEPT ![n].parts =
                      Some([Get(parts) EXCEPT ![k].text = Some(Get(@) \o response_text)])]
             ELSE [messages EXCEPT ![n].parts =
                      Some((IF Truthy(parts) THEN Get(parts) ELSE <<>>)
                           \o <<Part(Some(response_text), Some(is_thought), None)>>)]
    ELSE Append(messages,
                Content(Some(<<Part(Some(response_text), Some(is_thought), None)>>), "model"))

\* Mutant: every segment becomes a conversation entry of its own.
MergeSegmentNewEntry(messages, response_text, is_thought) ==
    Append(messages,
           Content(Some(<<Part(Some(response_text), Some(is_thought), None)>>), "model"))

\* Lines 222-231: where the segment goes in the conversation.
MergeSegment(messages, response_text, is_thought) ==
    LET n == Len(messages) IN
    IF n > 0 /\ messages[n].role = "model"
    THEN LET parts == messages[n].parts
             k == IF parts = None THEN 0 ELSE Len(Get(parts))
         IN  IF /\ Truthy(parts)
                /\ Get(parts)[k].text # None
                /\ Get(parts)[k].thought = Some(is_thought)
             THEN [messages EXCEPT ![n].parts =
                      Some([Get(parts) EXCEPT ![k].text = Some(Get(@) \o response_text)])]
             ELSE [messages EXCEPT ![n].parts =
                      Some((IF Truthy(parts) THEN Get(parts) ELSE <<>>)
                           \o <<Part(Some(response_text), Some(is_thought), None)>>)]
    ELSE Append(messages,
                Content(Some(<<Part(Some(response_text), Some(is_thought), None)>>), "model"))

\* Mutant: a response without a segment is skipped, not an error.
AppendGeneratedPartLenient(messages, response) ==
    LET seg == GeneratedSegment(response) IN
    IF seg.ok
    THEN [ok |-> TRUE, error |-> "none",
          messages |-> MergeSegment(messages, seg.text, seg.is_thought)]
    ELSE [ok |-> TRUE, error |-> "none", messages |-> messages]

\* _append_generated_part(messages, response): [ok, error, messages].
AppendGeneratedPart(messages, response) ==
    LET seg == GeneratedSegment(response) IN
    IF seg.ok
    THEN [ok |-> TRUE, error |-> "none",
          messages |-> MergeSegment(messages, seg.text, seg.is_thought)]
    ELSE [ok |-> FALSE, error |-> seg.error, messages |-> messages]

----------------------------------------------------------------------------
(* create_value: one frame per invocation.  pc is "idle" before the call,  *)
(* "awaiting" while a call to create is outstanding, "done" after a return *)
(* and "failed" after a raise.                                             *)

IdleFrame ==
    [pc |-> "idle",
     args |-> [result_type |-> "none", thinking_config |-> None,
               system_message |-> None, max_tokens |-> None, tools |-> None,
               tool_choice_mode |-> "NONE", autocomplete |-> FALSE],
     messages |-> <<>>, max_tokens |-> None, calls |-> <<>>,
     merges |-> 0, result |-> NoResult]

\* The keyword arguments of one self.create(...) of create_value.
CreateCall(f, result_type) ==
    [messages |-> f.messages,
     result_type |-> result_type,
     thinking_config |-> f.args.thinking_config,
     system_message |-> f.args.system_message,
     max_tokens |-> f.max_tokens,
     tools |-> f.args.tools,
     tool_config |-> f.args.tool_choice_mode]

IssueCreate(f, result_type) ==
    [f EXCEPT !.pc = "awaiting", !.calls = Append(@, CreateCall(f, result_type))]

\* Entry of create_value up to its first self.create (lines 154-163, 171-179).
BeginCreateValue(args, messages) ==
    IssueCreate([IdleFrame EXCEPT !.args = args, !.messages = messages,
                                  !.max_tokens = args.max_tokens],
                IF args.result_type = "tools" THEN "none" ELSE args.result_type)

RECURSIVE PartFunctions(_)
PartFunctions(parts) ==
    IF parts = <<>> THEN <<>>
    ELSE (IF Head(parts).function_call # None
          THEN <<Get(Head(parts).function_call)>> ELSE <<>>)
         \o PartFunctions(Tail(parts))

\* Mutant: only the first candidate is looked at.
CandidateFunctionsFirstOnly(candidates) ==
    IF candidates = <<>> THEN Returned(<<>>)
    ELSE LET c == Head(candidates) IN
         IF c.content = None THEN Raised("AttributeError")
         ELSE IF Get(c.content).parts = None THEN Raised("TypeError")
         ELSE Returned(PartFunctions(Get(Get(c.content).parts)))

RECURSIVE CandidateFunctions(_)
\* The nested loops of lines 165-168 over the candidates still to visit.
CandidateFunctions(candidates) ==
    IF candidates = <<>> THEN Returned(<<>>)
    ELSE LET c == Head(candidates) IN
         IF c.content = None THEN Raised("AttributeError")
         ELSE IF Get(c.content).parts = None THEN Raised("TypeError")
         ELSE LET rest == CandidateFunctions(Tail(candidates)) IN
              IF rest.kind = "raised" THEN rest
              ELSE Returned(PartFunctions(Get(Get(c.content).parts)) \o rest.value)

\* Lines 164-169: the value of create_value(result_type="tools").
ToolsDecode(response) ==
    IF response.candidates = None THEN Raised("TypeError")
    ELSE CandidateFunctions(Get(response.candidates))

\* Lines 194-199.
Decode(result_type, response) ==
    IF result_type = "none" THEN Returned(ResponseText(response))
    ELSE IF result_type = "json" THEN AsJson(ResponseText(response))
    ELSE Returned(response.parsed)

\* Mutant: MAX_TOKENS no longer ends the loop.
LoopConditionStopOnly(autocomplete, response) ==
    /\ autocomplete
    /\ Truthy(response.candidates)
    /\ FirstCandidate(response).finish_reason # "STOP"

\* Mutant: the loop runs whether or not autocomplete was asked for.
LoopConditionAnyFlag(autocomplete, response) ==
    /\ Truthy(response.candidates)
    /\ FirstCandidate(response).finish_reason \notin TerminalReasons

\* The while condition of lines 181 and 467.
LoopCondition(autocomplete, response) ==
    /\ autocomplete
    /\ Truthy(response.candidates)
    /\ FirstCandidate(response).finish_reason \notin TerminalReasons

Finish(f, result) ==
    [f EXCEPT !.pc = IF result.kind = "raised" THEN "failed" ELSE "done",
              !.result = result]

\* Lines 464-465, which only the suspending create_value has.
AfterFirstCall(variant, dmt, f) ==
    IF variant = "async" /\ Len(f.calls) = 1 /\ f.max_tokens = None
    THEN [f EXCEPT !.max_tokens = dmt]
    ELSE f

\* create_value from the return of a self.create to its next self.create,
\* its return or its raise.
HandleResponse(variant, dmt, f0, response) ==
    IF f0.args.result_type = "tools" THEN Finish(f0, ToolsDecode(response))
    ELSE LET f == AfterFirstCall(variant, dmt, f0) IN
         IF LoopCondition(f.args.autocomplete, response)
         THEN LET m == AppendGeneratedPart(f.messages, response) IN
              IF m.ok
              THEN IssueCreate([f EXCEPT !.messages = m.messages,
                                         !.merges = @ + 1],
                               f.args.result_type)
              ELSE Finish(f, Raised(m.error))
         ELSE Finish(f, Decode(f.args.result_type, response))

\* Mutant: a failed invocation takes its merges back.
HandleRaiseRollback(f) ==
    Finish([f EXCEPT !.messages = f.calls[1].messages], Raised("ProviderError"))

\* self.create raised (after the decorators gave up): the error propagates.
HandleRaise(f) == Finish(f, Raised("ProviderError"))

----------------------------------------------------------------------------
(* JSON.  A JSON value is a tagged record; a JSON text on disk is a        *)
(* sequence of tokens, the units in which json.dump hands it to the file.  *)

JNull == [json |-> "null"]

JBool(b) == [json |-> "bool", bool |-> b]

JNumber(n) == [json |-> "number", number |-> n]

\* A string of characters (a text).
JString(chars) == [json |-> "string", chars |-> chars]

\* A string that is an identifier (a role, an enum value, a name).
JName(name) == [json |-> "string", name |-> name]

JArray(items) == [json |-> "array", items |-> items]

\* fields maps each key to its value.
JObject(fields) == [json |-> "object", fields |-> fields]

JOptional(o, dump(_)) == IF o = None THEN JNull ELSE dump(Get(o))

TOpen == [tok |-> "{"]

TClose == [tok |-> "}"]

\* "key": value  (a value written in one piece)
TField(key, value) == [tok |-> "field", key |-> key, value |-> value]

\* "key": {
TOpenField(key) == [tok |-> "open_field", key |-> key]

\* A document that is not an object: null, a number, a string, an array.
TAtom(value) == [tok |-> "atom", value |-> value]

ParseFailure == [ok |-> FALSE, fields |-> <<>>, next |-> 0]

RECURSIVE ParseMembers(_, _)
\* The members of an object from token i to its closing brace; a key that
\* occurs twice keeps its last value.
ParseMembers(toks, i) ==
    IF i > Len(toks) THEN ParseFailure
    ELSE LET t == toks[i] IN
         IF t.tok = "}" THEN [ok |-> TRUE, fields |-> <<>>, next |-> i + 1]
         ELSE IF t.tok = "field"
         THEN LET rest == ParseMembers(toks, i + 1) IN
              IF rest.ok
              THEN [rest EXCEPT !.fields = @ @@ (t.key :> t.value)]
              ELSE ParseFailure
         ELSE IF t.tok = "open_field"
         THEN LET inner == ParseMembers(toks, i + 1) IN
              IF ~inner.ok THEN ParseFailure
              ELSE LET rest == ParseMembers(toks, inner.next) IN
                   IF rest.ok
                   THEN [rest EXCEPT !.fields = @ @@ (t.key :> JObject(inner.fields))]
                   ELSE ParseFailure
         ELSE ParseFailure

\* json.load(f): [ok, value]; ~ok is json.JSONDecodeError (an empty or
\* truncated text, or data after the end of the document).
JsonLoad(toks) ==
    IF toks = <<>> THEN [ok |-> FALSE, value |-> JNull]
    ELSE IF toks[1].tok = "atom"
    THEN [ok |-> Len(toks) = 1, value |-> toks[1].value]
    ELSE IF toks[1].tok = "{"
    THEN LET r == ParseMembers(toks, 2) IN
         IF r.ok /\ r.next = Len(toks) + 1
         THEN [ok |-> TRUE, value |-> JObject(r.fields)]
         ELSE [ok |-> FALSE, value |-> JNull]
    ELSE [ok |-> FALSE, value |-> JNull]

----------------------------------------------------------------------------
(* model_dump() of the message types, and building a Response from a dict. *)

PartDump(part) ==
    JObject([text |-> JOptional(part.text, JString),
             thought |-> JOptional(part.thought, JBool),
             function_call |-> JOptional(part.function_call, JName)])

DumpEach(items, dump(_)) == [i \in 1..Len(items) |-> dump(items[i])]

PartsDump(parts) == JArray(DumpEach(parts, PartDump))

ContentDump(content) ==
    JObject([parts |-> JOptional(content.parts, PartsDump),
             role |-> JName(content.role)])

CandidateDump(candidate) ==
    JObject([content |-> JOptional(candidate.content, ContentDump),
             finish_reason |-> JName(candidate.finish_reason)])

CandidatesDump(candidates) == JArray(DumpEach(candidates, CandidateDump))

\* response.model_dump()
ResponseDump(response) ==
    JObject([candidates |-> JOptional(response.candidates, CandidatesDump),
             parsed |-> JOptional(response.parsed, JName)])

\* [message.model_dump() for message in messages]
MessagesDump(messages) == JArray(DumpEach(messages, ContentDump))

LoadOptional(v, load(_)) == IF v = JNull THEN None ELSE Some(load(v))

PartLoad(v) ==
    Part(LoadOptional(v.fields.text, LAMBDA x : x.chars),
         LoadOptional(v.fields.thought, LAMBDA x : x.bool),
         LoadOptional(v.fields.function_call, LAMBDA x : x.name))

LoadEach(items, load(_)) == [i \in 1..Len(items) |-> load(items[i])]

ContentLoad(v) ==
    Content(LoadOptional(v.fields.parts, LAMBDA x : LoadEach(x.items, PartLoad)),
            v.fields.role.name)

CandidateLoad(v) ==
    Candidate(LoadOptional(v.fields.content, ContentLoad), v.fields.finish_reason.name)

IsObjectWith(v, keys) == v.json = "object" /\ DOMAIN v.fields = keys

IsNullOr(v, valid(_)) == v = JNull \/ valid(v)

IsArrayOf(v, valid(_)) ==
    v.json = "array" /\ \A i \in 1..Len(v.items) : valid(v.items[i])

IsText(v) == v.json = "string" /\ "chars" \in DOMAIN v

IsName(v) == v.json = "string" /\ "name" \in DOMAIN v

ValidPart(v) ==
    /\ IsObjectWith(v, {"text", "thought", "function_call"})
    /\ IsNullOr(v.fields.text, IsText)
    /\ IsNullOr(v.fields.thought, LAMBDA x : x.json = "bool")
    /\ IsNullOr(v.fields.function_call, IsName)

ValidContent(v) ==
    /\ IsObjectWith(v, {"parts", "role"})
    /\ IsNullOr(v.fields.parts, LAMBDA x : IsArrayOf(x, ValidPart))
    /\ IsName(v.fields.role)

ValidCandidate(v) ==
    /\ IsObjectWith(v, {"content", "finish_reason"})
    /\ IsNullOr(v.fields.content, ValidContent)
    /\ IsName(v.fields.finish_reason)

\* Whether pydantic accepts the fields of `v` for a Response.
ValidResponse(v) ==
    /\ IsObjectWith(v, {"candidates", "parsed"})
    /\ IsNullOr(v.fields.candidates, LAMBDA x : IsArrayOf(x, ValidCandidate))
    /\ IsNullOr(v.fields.parsed, IsName)

\* The Response built from the fields of a v that ValidResponse accepts.
ResponseLoad(v) ==
    Response(LoadOptional(v.fields.candidates,
                          LAMBDA x : LoadEach(x.items, CandidateLoad)),
             LoadOptional(v.fields.parsed, LAMBDA x : x.name))

----------------------------------------------------------------------------
(* CachedLLMClient.create_cached and save_cache.  `files` is the content   *)
(* of cache_dir: for each cache path None (no file) or the file's tokens.  *)

FullModelNames == {"p:m1", "p:m2"}

\* The digest in the file name of lines 599-602.  SHA-256 is modelled as a
\* function of the hashed pair with a small range, so that collisions can
\* be had: two model identifiers share a path, and so do two conversations
\* whose lengths agree modulo the range.
CachePath(full_model_name, messages_dump) == Len(messages_dump.items) % DigestRange

CachePaths == 0..(DigestRange - 1)

\* What json.dump(..., f, indent=4) of line 619 writes, in order.
EntryTokens(full_model_name, messages_dump, response) ==
    LET dumped == ResponseDump(response) IN
    << TOpen,
       TField("full_model_name", JName(full_model_name)),
       TField("request", messages_dump),
       TOpenField("response"),
       TField("candidates", dumped.fields.candidates),
       TField("parsed", dumped.fields.parsed),
       TClose,
       TClose >>

Lookup(outcome, response, error, messages_dump, cache_path) ==
    [outcome |-> outcome, response |-> response, error |-> error,
     messages_dump |-> messages_dump, cache_path |-> cache_path]

NoResponse == Response(None, None)

\* Mutant: the recorded model identifier is not compared.
CreateCachedNoNameCheck(full_model_name, files, messages) ==
    LET messages_dump == MessagesDump(messages)
        cache_path == CachePath(full_model_name, messages_dump)
        Miss == Lookup("miss", NoResponse, "none", messages_dump, cache_path)
    IN  IF files[cache_path] = None THEN Miss
        ELSE LET loaded == JsonLoad(Get(files[cache_path]))
                 cache_data == loaded.value
             IN  IF ~loaded.ok THEN Miss
                 ELSE IF {"request", "response"} \subseteq DOMAIN cache_data.fields
                         /\ cache_data.fields.request = messages_dump
                 THEN Lookup("hit", ResponseLoad(cache_data.fields.response), "none",
                             messages_dump, cache_path)
                 ELSE Miss

\* create_cached(llm_client, cache_dir, messages): the Response found (a
\* hit), None (a miss), or the exception that leaves the function.
CreateCached(full_model_name, files, messages) ==
    LET messages_dump == MessagesDump(messages)
        cache_path == CachePath(full_model_name, messages_dump)
        Miss == Lookup("miss", NoResponse, "none", messages_dump, cache_path)
        Raise(error) == Lookup("raise", NoResponse, error, messages_dump, cache_path)
    IN  IF files[cache_path] = None THEN Miss
        ELSE LET loaded == JsonLoad(Get(files[cache_path]))
                 cache_data == loaded.value
             IN  IF ~loaded.ok THEN Miss
                 ELSE IF cache_data.json # "object" THEN Raise("TypeError")
                 ELSE IF "full_model_name" \notin DOMAIN cache_data.fields THEN Miss
                 ELSE IF cache_data.fields.full_model_name # JName(full_model_name)
                 THEN Miss
                 ELSE IF "request" \notin DOMAIN cache_data.fields THEN Miss
                 ELSE IF cache_data.fields.request # messages_dump THEN Miss
                 ELSE IF "response" \notin DOMAIN cache_data.fields THEN Miss
                 ELSE LET r == cache_data.fields.response IN
                      IF r.json # "object" THEN Raise("TypeError")
                      ELSE IF ~ValidResponse(r) THEN Raise("ValidationError")
                      ELSE Lookup("hit", ResponseLoad(r), "none",
                                  messages_dump, cache_path)

\* Mutant: the entry records the bare model name, not the full identifier.
SaveCacheBareName(files, cache_path, full_model_name, messages_dump, response) ==
    [files EXCEPT ![cache_path] = Some(EntryTokens("m", messages_dump, response))]

\* Mutant: only requests that end with a user entry are stored.
SaveCacheUserRequestsOnly(files, cache_path, full_model_name, messages_dump, response) ==
    LET items == messages_dump.items IN
    IF items # <<>> /\ items[Len(items)].fields.role = JName("user")
    THEN [files EXCEPT ![cache_path] =
             Some(EntryTokens(full_model_name, messages_dump, response))]
    ELSE files

\* Mutant: only a Response that ends a continuation is stored.
SaveCacheTerminalOnly(files, cache_path, full_model_name, messages_dump, response) ==
    IF LoopCondition(TRUE, response) THEN files
    ELSE [files EXCEPT ![cache_path] =
             Some(EntryTokens(full_model_name, messages_dump, response))]

\* save_cache(cache_path, full_model_name, messages_dump, response), run
\* without another writer: open(cache_path, 'wt') empties the file, json.dump
\* writes the record and the with block closes it.
SaveCache(files, cache_path, full_model_name, messages_dump, response) ==
    [files EXCEPT ![cache_path] =
        Some(EntryTokens(full_model_name, messages_dump, response))]

----------------------------------------------------------------------------
(* Inputs of the engine *)

TextPart(text) == Part(Some(text), None, None)

ThoughtPart(text) == Part(Some(text), Some(TRUE), None)

CallPart(name) == Part(None, None, Some(name))

UserEntry == Content(Some(<<TextPart(<<"a">>)>>), "user")

ModelEntry(parts) == Content(parts, "model")

\* Conversations a caller passes to create_value.
Conversations ==
    { <<>>,
      <<UserEntry>>,
      <<UserEntry, ModelEntry(Some(<<Part(Some(<<"a">>), Some(FALSE), None)>>))>>,
      <<UserEntry, ModelEntry(Some(<<TextPart(<<"a">>)>>))>>,
      <<UserEntry, ModelEntry(Some(<<ThoughtPart(<<"a">>)>>))>>,
      <<UserEntry, ModelEntry(Some(<<CallPart("f")>>))>>,
      <<UserEntry, ModelEntry(None)>> }

ModelResponse(parts, finish_reason, parsed) ==
    Response(Some(<<Candidate(Some(ModelEntry(parts)), finish_reason)>>), parsed)

\* Responses a provider's create may return.
ProviderResponses ==
    { ModelResponse(Some(<<TextPart(<<"1">>)>>), fr, None) :
          fr \in {"STOP", "MAX_TOKENS", "OTHER"} }
    \cup { ModelResponse(Some(<<ThoughtPart(<<"a">>), TextPart(<<"a">>)>>), fr, None) :
          fr \in {"STOP", "OTHER"} }
    \cup { ModelResponse(Some(<<CallPart("f")>>), fr, None) : fr \in {"STOP", "OTHER"} }
    \cup { ModelResponse(Some(<<ThoughtPart(<<"a">>)>>), "OTHER", None),
           ModelResponse(Some(<<ThoughtPart(<<>>)>>), "OTHER", None),
           ModelResponse(None, "OTHER", None),
           ModelResponse(Some(<<TextPart(<<"1">>)>>), "STOP", Some("obj")),
           Response(Some(<<Candidate(None, "OTHER")>>), None),
           Response(Some(<<Candidate(Some(ModelEntry(Some(<<CallPart("f"), TextPart(<<"a">>)>>))), "STOP"),
                           Candidate(Some(ModelEntry(Some(<<CallPart("g")>>))), "STOP")>>),
                    None),
           Response(Some(<<>>), None),
           Response(None, None) }

\* thinking_config, system_message and tools are passed through untouched;
\* they are drawn together.
Extras ==
    { [thinking_config |-> None, system_message |-> None, tools |-> None],
      [thinking_config |-> Some("tc"), system_message |-> Some("sys"),
       tools |-> Some("toolset")] }

ArgChoices ==
    { [result_type |-> rt, thinking_config |-> x.thinking_config,
       system_message |-> x.system_message, max_tokens |-> mt, tools |-> x.tools,
       tool_choice_mode |-> mode, autocomplete |-> ac] :
        rt \in {"none", "json", "schema", "tools"}, x \in Extras,
        mt \in {None, Some(5)}, mode \in {"NONE", "ANY"}, ac \in BOOLEAN }

\* The parameters of from_text besides the prompt (lines 295-305, 549-559).
FromTextChoices ==
    { [result_type |-> rt, thinking_config |-> x.thinking_config,
       system_message |-> x.system_message, max_tokens |-> mt, tools |-> x.tools,
       tool_choice_mode |-> mode] :
        rt \in {"none", "json", "schema", "tools"}, x \in Extras,
        mt \in {None, Some(5)}, mode \in {"NONE", "ANY"} }

Prompts == { <<"1">> }

\* [Content(parts=[Part(text=prompt)], role="user")]
PromptConversation(prompt) == <<Content(Some(<<Part(Some(prompt), None, None)>>), "user")>>

\* The arguments create_value gets from from_text: autocomplete is not
\* passed and takes its default of line 152.
FromTextArgs(a) ==
    [result_type |-> a.result_type, thinking_config |-> a.thinking_config,
     system_message |-> a.system_message, max_tokens |-> a.max_tokens,
     tools |-> a.tools, tool_choice_mode |-> a.tool_choice_mode,
     autocomplete |-> FALSE]

\* What a provider's create did: returned a Response, or raised.
Delivered(response) == [raised |-> FALSE, response |-> response]

Failed == [raised |-> TRUE, response |-> Response(None, None)]

----------------------------------------------------------------------------
(* The engine: BaseLLMClient.create_value and BaseLLMClientAsync.create_value *)
(* run side by side on equal arguments, equal client defaults and equal      *)
(* provider responses.                                                       *)

NoClient == [full_model_name |-> "none", variant |-> "sync"]

CacheIdle ==
    /\ cache = <<>>
    /\ crun = IdleFrame
    /\ client = NoClient
    /\ wrapped_calls = <<>>
    /\ last = <<>>
    /\ invocations = 0
    /\ threads = <<>>
    /\ previous = <<>>

cache_vars == <<cache, crun, client, wrapped_calls, last, invocations, threads,
               previous>>

Init ==
    /\ default_max_tokens \in {None, Some(7)}
    /\ run = [v \in Variants |-> IdleFrame]
    /\ responses = <<>>
    /\ json_call = NoJsonCall
    /\ CacheIdle

\* create_value(messages, result_type, ..., autocomplete) is called.
CreateValue(args, messages) ==
    /\ \A v \in Variants : run[v].pc = "idle"
    /\ run' = [v \in Variants |-> BeginCreateValue(args, messages)]
    /\ UNCHANGED <<default_max_tokens, responses, cache_vars, json_call>>

\* from_text(prompt, result_type, ...) is called.
FromText(prompt, a) ==
    /\ \A v \in Variants : run[v].pc = "idle"
    /\ run' = [v \in Variants |->
                 BeginCreateValue(FromTextArgs(a), PromptConversation(prompt))]
    /\ UNCHANGED <<default_max_tokens, responses, cache_vars, json_call>>

\* The outstanding create returns `response`.
CreateReturns(response) ==
    /\ \E v \in Variants : run[v].pc = "awaiting"
    /\ \A v \in Variants :
         Len(run[v].calls) >= MaxCalls =>
             ~(/\ run[v].args.result_type # "tools"
               /\ LoopCondition(run[v].args.autocomplete, response))
    /\ run' = [v \in Variants |->
                 IF run[v].pc = "awaiting"
                 THEN HandleResponse(v, default_max_tokens, run[v], response)
                 ELSE run[v]]
    /\ responses' = Append(responses, Delivered(response))
    /\ UNCHANGED <<default_max_tokens, cache_vars, json_call>>

\* The outstanding create raises.
CreateRaises ==
    /\ \E v \in Variants : run[v].pc = "awaiting"
    /\ run' = [v \in Variants |->
                 IF run[v].pc = "awaiting" THEN HandleRaise(run[v]) ELSE run[v]]
    /\ responses' = Append(responses, Failed)
    /\ UNCHANGED <<default_max_tokens, cache_vars, json_call>>

Next ==
    \/ \E args \in ArgChoices, messages \in Conversations : CreateValue(args, messages)
    \/ \E prompt \in Prompts, a \in FromTextChoices : FromText(prompt, a)
    \/ \E response \in ProviderResponses : CreateReturns(response)
    \/ CreateRaises

Spec == Init /\ [][Next]_vars

----------------------------------------------------------------------------
(* Claims about the engine (specification Spec) *)

Ended(f) == f.pc \in {"done", "failed"}

HasCandidates(d) == ~d.raised /\ Truthy(d.response.candidates)

IsTerminal(d) ==
    HasCandidates(d) /\ FirstCandidate(d.response).finish_reason \in TerminalReasons

\* Every response so far came with a first candidate: the finish reasons
\* r1..rk of the claims exist.
AllHaveCandidates == \A k \in 1..Len(responses) : HasCandidates(responses[k])

\* The non-thought text one call generated.
NonThoughtText(response) ==
    LET t == ResponseText(response) IN IF t = None THEN <<>> ELSE Get(t)

RECURSIVE AllNonThoughtText(_)
AllNonThoughtText(ds) ==
    IF ds = <<>> THEN <<>>
    ELSE NonThoughtText(Head(ds).response) \o AllNonThoughtText(Tail(ds))

Continuing(f) == f.args.autocomplete /\ f.args.result_type # "tools"

\* C3: with autocomplete=True and result shape none, over provider
\* responses whose finish reasons end in STOP, the returned text is the
\* concatenation, in call order, of the non-thought text of all calls.
C3_ReturnsFullConcatenation ==
    \A v \in Variants :
        (/\ run[v].pc = "done"
         /\ run[v].args.autocomplete
         /\ run[v].args.result_type = "none"
         /\ AllHaveCandidates
         /\ FirstCandidate(responses[Len(responses)].response).finish_reason = "STOP")
        => run[v].result.value = Some(AllNonThoughtText(responses))

\* C4 as claimed: with autocomplete=True and a non-tools shape, an
\* invocation fed responses that all carry a finish reason ends only on the
\* first terminal one, after exactly that many calls.
C4_EndsOnFirstTerminal ==
    \A v \in Variants :
        (Ended(run[v]) /\ Continuing(run[v]) /\ AllHaveCandidates)
        => /\ IsTerminal(responses[Len(responses)])
           /\ Len(run[v].calls) = Len(responses)
           /\ \A k \in 1..(Len(responses) - 1) : ~IsTerminal(responses[k])

\* A response the merge can use: it yields a generated segment.
Mergeable(d) == HasCandidates(d) /\ GeneratedSegment(d.response).ok

\* C4 as amended: call k+1 is issued only after response k was non-terminal
\* and mergeable, one merge per continuation call; the invocation ends with
\* the first terminal response after exactly that many calls, and ends
\* before it only by failing at the merge of an unmergeable response.
C4_CallCount ==
    \A v \in Variants :
        (run[v].pc # "idle" /\ Continuing(run[v]))
        => LET n == Len(run[v].calls) IN
           /\ run[v].merges = n - 1
           /\ \A k \in 1..(n - 1) :
                  ~IsTerminal(responses[k]) /\ Mergeable(responses[k])
           /\ Len(responses) = IF run[v].pc = "awaiting" THEN n - 1 ELSE n
           /\ (Ended(run[v]) /\ AllHaveCandidates /\ ~IsTerminal(responses[n]))
                  => /\ run[v].pc = "failed"
                     /\ ~Mergeable(responses[n])

\* C4 witness: an invocation that ended on the third response, the first
\* terminal one, after three calls and two merges.
C4_Witness ==
    /\ run["sync"].pc = "done"
    /\ Continuing(run["sync"])
    /\ Len(run["sync"].calls) = 3
    /\ run["sync"].merges = 2
    /\ IsTerminal(responses[3])

\* C5: a Response without candidates returned by any create inside
\* create_value makes the invocation fail.
C5_MissingCandidatesFail ==
    \A v \in Variants :
        (/\ Ended(run[v])
         /\ \E k \in 1..Len(responses) :
                ~responses[k].raised /\ ~Truthy(responses[k].response.candidates))
        => run[v].pc = "failed"

\* C6: on equal arguments, defaults and provider responses the blocking and
\* the suspending create_value issue the same create calls, make the same
\* merges and end the same way.
C6_SyncAsyncEquivalent ==
    /\ run["sync"].calls = run["async"].calls
    /\ run["sync"].messages = run["async"].messages
    /\ run["sync"].pc = run["async"].pc
    /\ run["sync"].result = run["async"].result

\* What a call passes besides the conversation.
Parameters(call) ==
    <<call.result_type, call.thinking_config, call.system_message,
      call.max_tokens, call.tools, call.tool_config>>

\* C7: every continuation call passes the parameters of the first call of
\* its invocation; only the conversation differs.
C7_SameParameters ==
    \A v \in Variants :
        \A k \in 2..Len(run[v].calls) :
            Parameters(run[v].calls[k]) = Parameters(run[v].calls[1])

\* The k-th merge of an invocation: the conversation handed to call k, the
\* segment generated from response k, the conversation handed to call k+1.
MergeBefore(f, k) == f.calls[k].messages

MergeAfter(f, k) == f.calls[k + 1].messages

MergeSegmentOf(k) == GeneratedSegment(responses[k].response)

Merges(f) == 1..(Len(f.calls) - 1)

\* The last part of the last entry, when that entry is model-authored and
\* has parts.
EndsInModelPart(messages) ==
    /\ Len(messages) > 0
    /\ messages[Len(messages)].role = "model"
    /\ Truthy(messages[Len(messages)].parts)

LastParts(messages) == Get(messages[Len(messages)].parts)

LastPart(messages) == LastParts(messages)[Len(LastParts(messages))]

\* C11: when the conversation's last entry is model-authored and its last
\* part is text whose thought flag equals the generated segment's flag, the
\* merge concatenates the segment onto that part's text, old text first,
\* and the numbers of entries and of parts of that entry stay as they were.
C11_SameFlagAppend ==
    \A v \in Variants : \A k \in Merges(run[v]) :
        LET before == MergeBefore(run[v], k)
            after == MergeAfter(run[v], k)
            seg == MergeSegmentOf(k)
        IN  (/\ EndsInModelPart(before)
             /\ LastPart(before).text # None
             /\ LastPart(before).thought = Some(seg.is_thought))
            => /\ Len(after) = Len(before)
               /\ Len(LastParts(after)) = Len(LastParts(before))
               /\ LastPart(after).text = Some(Get(LastPart(before).text) \o seg.text)
               /\ LastPart(after).thought = Some(seg.is_thought)

\* C11 witness: a model entry ending in the non-thought text a was merged
\* with the non-thought segment 1 into the single part a1.
C11_Witness ==
    /\ Merges(run["sync"]) # {}
    /\ EndsInModelPart(MergeBefore(run["sync"], 1))
    /\ LastPart(MergeBefore(run["sync"], 1)) = Part(Some(<<"a">>), Some(FALSE), None)
    /\ ~MergeSegmentOf(1).is_thought
    /\ LastParts(MergeAfter(run["sync"], 1)) = <<Part(Some(<<"a", "1">>), Some(FALSE), None)>>

\* C12: when the conversation's last entry is model-authored and its last
\* part is not text or carries a thought flag different from the segment's,
\* the merge appends one new part, the segment's text with the segment's
\* flag, to that entry and leaves every existing part as it was.
C12_FlagChangeAppendsPart ==
    \A v \in Variants : \A k \in Merges(run[v]) :
        LET before == MergeBefore(run[v], k)
            after == MergeAfter(run[v], k)
            seg == MergeSegmentOf(k)
        IN  (/\ EndsInModelPart(before)
             /\ \/ LastPart(before).text = None
                \/ LastPart(before).thought # Some(seg.is_thought))
            => /\ Len(after) = Len(before)
               /\ LastParts(after) =
                      LastParts(before) \o <<Part(Some(seg.text), Some(seg.is_thought), None)>>

\* C12 witness: a model entry ending in the non-thought text a was merged
\* with a thought segment and now has two parts.
C12_Witness ==
    /\ Merges(run["sync"]) # {}
    /\ EndsInModelPart(MergeBefore(run["sync"], 1))
    /\ LastPart(MergeBefore(run["sync"], 1)) = Part(Some(<<"a">>), Some(FALSE), None)
    /\ MergeSegmentOf(1).is_thought
    /\ Len(LastParts(MergeAfter(run["sync"], 1))) = 2

\* The parts of the first candidate; none when its content or its part
\* list is missing.
FirstParts(response) ==
    LET c == FirstCandidate(response) IN
    IF c.content = None \/ Get(c.content).parts = None THEN <<>>
    ELSE Get(Get(c.content).parts)

\* The first candidate has no non-thought text part and no thought part
\* with text.
NoUsableText(response) ==
    \A i \in 1..Len(FirstParts(response)) :
        LET part == FirstParts(response)[i] IN
        /\ ~(part.text # None /\ part.thought \in {None, Some(FALSE)})
        /\ ~(part.text # None /\ part.text # Some(<<>>) /\ part.thought = Some(TRUE))

\* The errors _append_generated_part raises for a response it cannot use:
\* the assertion of line 204 when the first candidate has no content, the
\* ValueError of line 220 otherwise.
MalformedContinuation(response) ==
    IF FirstCandidate(response).content = None
    THEN Raised("AssertionError")
    ELSE Raised("ValueError: No text or thought found in the response parts.")

\* Response k was taken into a continuation step of the frame: the loop
\* condition held for it.
ContinuationStep(f, k) ==
    /\ Continuing(f)
    /\ f.pc # "idle"
    /\ HasCandidates(responses[k])
    /\ ~IsTerminal(responses[k])

IsPrefix(old, new) == Len(old) <= Len(new) /\ SubSeq(new, 1, Len(old)) = old

\* The part list `after` keeps every part of `before`; only the text of the
\* part that was last may have grown at its end.
PartsExtended(before, after) ==
    LET b == IF before = None THEN <<>> ELSE Get(before)
        a == IF after = None THEN <<>> ELSE Get(after)
    IN  /\ Len(a) >= Len(b)
        /\ \A j \in 1..Len(b) :
              IF j < Len(b) THEN a[j] = b[j]
              ELSE /\ a[j].thought = b[j].thought
                   /\ a[j].function_call = b[j].function_call
                   /\ IF b[j].text = None THEN a[j].text = None
                      ELSE a[j].text # None /\ IsPrefix(Get(b[j].text), Get(a[j].text))

\* The conversation `after` differs from `before` only by model-authored
\* content appended at its end.
OnlyModelContentAppended(before, after) ==
    /\ Len(after) >= Len(before)
    /\ \A i \in 1..Len(before) :
          IF i < Len(before) \/ before[i].role = "user" THEN after[i] = before[i]
          ELSE /\ after[i].role = before[i].role
               /\ PartsExtended(before[i].parts, after[i].parts)
    /\ \A i \in (Len(before) + 1)..Len(after) : after[i].role = "model"

\* C14: across a create_value invocation the conversation changes only by
\* model-authored content appended at its end: user entries and all entries
\* but the last model-authored one stay as they are, present text only
\* grows at its end, from one call to the next and from the caller's
\* conversation to the current one; without autocomplete, or with result
\* shape tools, the conversation does not change at all.
C14_OnlyAppendsModelContent ==
    \A v \in Variants :
        run[v].pc # "idle" =>
            LET f == run[v]
                n == Len(f.calls)
            IN  /\ \A k \in 1..(n - 1) :
                      OnlyModelContentAppended(f.calls[k].messages, f.calls[k + 1].messages)
                /\ OnlyModelContentAppended(f.calls[n].messages, f.messages)
                /\ OnlyModelContentAppended(f.calls[1].messages, f.messages)
                /\ (~f.args.autocomplete \/ f.args.result_type = "tools")
                       => f.messages = f.calls[1].messages

\* C14 witness: an invocation on a conversation ending in a model entry has
\* returned after two merges, and the conversation has changed.
C14_Witness ==
    /\ run["sync"].pc = "done"
    /\ run["sync"].merges = 2
    /\ run["sync"].calls[1].messages
           = <<UserEntry, ModelEntry(Some(<<Part(Some(<<"a">>), Some(FALSE), None)>>))>>
    /\ run["sync"].messages # run["sync"].calls[1].messages

RECURSIVE MergedUpTo(_, _)
\* The caller's conversation after the merges of responses 1..k.
MergedUpTo(messages, k) ==
    IF k = 0 THEN messages
    ELSE MergeSegment(MergedUpTo(messages, k - 1),
                      MergeSegmentOf(k).text, MergeSegmentOf(k).is_thought)

\* C15: when the k-th call (k >= 2) of a continuation loop fails with a
\* propagated error, create_value has failed with that error and no value,
\* call k is the last call issued, and the conversation holds exactly the
\* k-1 merges made before it.
C15_PartialProgressOnFailure ==
    \A v \in Variants : \A k \in 2..Len(responses) :
        (run[v].pc # "idle" /\ responses[k].raised)
        => /\ run[v].pc = "failed"
           /\ run[v].result = Raised("ProviderError")
           /\ Len(run[v].calls) = k
           /\ Len(responses) = k
           /\ run[v].merges = k - 1
           /\ run[v].messages = MergedUpTo(run[v].calls[1].messages, k - 1)

\* C15 witness: the third call of an invocation failed after two merges.
C15_Witness ==
    /\ Len(responses) = 3
    /\ responses[3].raised
    /\ run["async"].pc = "failed"
    /\ run["async"].merges = 2
    /\ run["async"].messages # run["async"].calls[1].messages

\* The invocation was made through from_text.
ThroughFromText(f) ==
    f.pc # "idle" /\ \E prompt \in Prompts : f.calls[1].messages = PromptConversation(prompt)

\* The value create_value gives for one Response, or the error of the call.
SingleCallResult(f, d) ==
    IF d.raised THEN Raised("ProviderError")
    ELSE IF f.args.result_type = "tools" THEN ToolsDecode(d.response)
    ELSE Decode(f.args.result_type, d.response)

\* C16: an invocation made through from_text runs without autocomplete; an
\* invocation without autocomplete issues exactly one call to create,
\* whatever finish reason comes back, and ends with the decoding of that
\* one Response.
C16_ContinuationIsOptIn ==
    \A v \in Variants :
        /\ ThroughFromText(run[v]) => ~run[v].args.autocomplete
        /\ (run[v].pc # "idle" /\ ~run[v].args.autocomplete)
           => /\ Len(run[v].calls) = 1
              /\ run[v].merges = 0
              /\ Len(responses) = 1 =>
                    /\ Ended(run[v])
                    /\ run[v].result = SingleCallResult(run[v], responses[1])

\* C16 witness: from_text got a Response with a non-terminal finish reason
\* and returned its text after the one call.
C16_Witness ==
    /\ ThroughFromText(run["sync"])
    /\ Len(responses) = 1
    /\ HasCandidates(responses[1])
    /\ FirstCandidate(responses[1].response).finish_reason = "OTHER"
    /\ run["sync"].pc = "done"
    /\ run["sync"].args.result_type = "none"
    /\ run["sync"].result = Returned(Some(<<"1">>))

\* Every candidate of the Response carries content with a part list.
CandidatesHaveParts(response) ==
    /\ response.candidates # None
    /\ \A i \in 1..Len(Get(response.candidates)) :
          LET c == Get(response.candidates)[i] IN
          c.content # None /\ Get(c.content).parts # None

RECURSIVE AllParts(_)
\* The parts of the candidates, in candidate order then part order.
AllParts(candidates) ==
    IF candidates = <<>> THEN <<>>
    ELSE Get(Get(Head(candidates).content).parts) \o AllParts(Tail(candidates))

CarriesFunctionCall(part) == part.function_call # None

\* The function-call payloads among the parts, in order.
Payloads(parts) ==
    LET calls == SelectSeq(parts, CarriesFunctionCall)
    IN  [i \in 1..Len(calls) |-> Get(calls[i].function_call)]

\* C17: with result shape tools, create_value makes one call and returns
\* the function-call payloads of all parts of all candidates of its
\* Response, in candidate order then part order, leaving out parts without
\* a function call; the list may be empty, also under tool choice mode ANY.
\* A candidate without content or without a part list makes it raise.
C17_ToolCallDecoding ==
    \A v \in Variants :
        (/\ run[v].pc # "idle"
         /\ run[v].args.result_type = "tools"
         /\ Len(responses) = 1
         /\ ~responses[1].raised)
        => /\ Len(run[v].calls) = 1
           /\ IF CandidatesHaveParts(responses[1].response)
              THEN run[v].result =
                       Returned(Payloads(AllParts(Get(responses[1].response.candidates))))
              ELSE run[v].result.kind = "raised"

\* C17 witness: under tool choice mode ANY a Response with two candidates,
\* the first with a function call and a text part, the second with a
\* function call, was decoded to the two payloads in order.
C17_Witness ==
    /\ run["sync"].pc = "done"
    /\ run["sync"].args.result_type = "tools"
    /\ run["sync"].args.tool_choice_mode = "ANY"
    /\ Len(Get(responses[1].response.candidates)) = 2
    /\ run["sync"].result = Returned(<<"f", "g">>)

\* C19: a last text part that segment selection treats as non-thought
\* (flag False or unset) is merged with a non-thought segment by
\* concatenation: the part count stays and the text grows.
C19_UnsetFlagIsNonThought ==
    \A v \in Variants : \A k \in Merges(run[v]) :
        LET before == MergeBefore(run[v], k)
            after == MergeAfter(run[v], k)
            seg == MergeSegmentOf(k)
        IN  (/\ EndsInModelPart(before)
             /\ PlainText(LastPart(before))
             /\ ~seg.is_thought)
            => /\ Len(LastParts(after)) = Len(LastParts(before))
               /\ LastPart(after).text = Some(Get(LastPart(before).text) \o seg.text)

IsSuffix(end, text) ==
    Len(end) <= Len(text) /\ SubSeq(text, Len(text) - Len(end) + 1, Len(text)) = end

\* The conversation ends with a model-authored entry.
EndsWithModelEntry(messages) ==
    Len(messages) > 0 /\ messages[Len(messages)].role = "model"

\* C23: after every merge the conversation's last entry has role model and
\* its last part is a text part with the segment's thought flag whose text
\* ends with the segment; over the whole loop the number of entries grows
\* by one when the caller's conversation did not end with a model entry and
\* at least one merge was made, and by none otherwise.
C23_LoopInvariant ==
    \A v \in Variants :
        run[v].pc # "idle" =>
            LET f == run[v]
                original == f.calls[1].messages
            IN  /\ \A k \in Merges(f) :
                      LET after == MergeAfter(f, k)
                          seg == MergeSegmentOf(k)
                      IN  /\ EndsInModelPart(after)
                          /\ LastPart(after).text # None
                          /\ LastPart(after).thought = Some(seg.is_thought)
                          /\ IsSuffix(seg.text, Get(LastPart(after).text))
                /\ Len(f.messages) =
                       Len(original)
                       + (IF f.merges >= 1 /\ ~EndsWithModelEntry(original) THEN 1 ELSE 0)

\* C23 witness: two merges onto a conversation that ended with a user entry
\* added one model entry, whose single part holds both segments.
C23_Witness ==
    /\ run["sync"].pc = "done"
    /\ run["sync"].merges = 2
    /\ run["sync"].calls[1].messages = <<UserEntry>>
    /\ Len(run["sync"].messages) = 2
    /\ LastParts(run["sync"].messages) = <<Part(Some(<<"1", "1">>), Some(FALSE), None)>>

----------------------------------------------------------------------------
(* The cache layer: create_value invocations, one after another, on        *)
(* CachedLLMClient / CachedLLMClientAsync objects that share a cache_dir.  *)

CacheConversations == { <<UserEntry>> }

\* Responses the wrapped client's create may return.
WrappedResponses ==
    { ModelResponse(Some(<<TextPart(<<"1">>)>>), "OTHER", None),
      ModelResponse(Some(<<TextPart(<<"1">>)>>), "STOP", None),
      ModelResponse(Some(<<ThoughtPart(<<"a">>), TextPart(<<"a">>)>>), "MAX_TOKENS",
                    Some("obj")) }

CacheArgChoices ==
    { a \in ArgChoices :
        /\ a.result_type = "none"
        /\ a.max_tokens = None
        /\ a.thinking_config = None
        /\ a.tool_choice_mode = "NONE" }

EngineIdle ==
    /\ run = [v \in Variants |-> IdleFrame]
    /\ responses = <<>>
    /\ json_call = NoJsonCall

InitCache ==
    /\ default_max_tokens = None
    /\ EngineIdle
    /\ cache = [path \in CachePaths |-> None]
    /\ crun = IdleFrame
    /\ client \in {[NoClient EXCEPT !.variant = v] : v \in Variants}
    /\ wrapped_calls = <<>>
    /\ last = None
    /\ invocations = 0
    /\ threads = <<>>
    /\ previous = <<>>

\* create_value is called on a cached client that wraps full_model_name.
\* An invocation that has ended, as its caller saw it: the client's model
\* identifier, the frame, the wrapped calls made up to its end.
Invocation(full_model_name, f, wrapped) ==
    [full_model_name |-> full_model_name, frame |-> f, wrapped |-> wrapped]

CachedCreateValue(full_model_name, args, messages) ==
    /\ crun.pc # "awaiting"
    /\ invocations < MaxInvocations
    /\ invocations' = invocations + 1
    /\ client' = [client EXCEPT !.full_model_name = full_model_name]
    /\ crun' = BeginCreateValue(args, messages)
    /\ previous' = IF crun.pc = "idle" THEN previous
                   ELSE Append(previous, Invocation(client.full_model_name, crun,
                                                    Len(wrapped_calls)))
    /\ UNCHANGED <<json_call, default_max_tokens, run, responses, cache, wrapped_calls,
                   last, threads>>

\* Mutant: an entry answers only calls made with the parameters of the
\* call that was last passed on to the wrapped client.
CurrentLookupPerParameters ==
    LET lookup == CreateCached(client.full_model_name, cache, crun.messages)
        n == Len(wrapped_calls)
    IN  IF /\ lookup.outcome = "hit"
           /\ n > 0
           /\ Parameters(wrapped_calls[n].call) # Parameters(crun.calls[Len(crun.calls)])
        THEN [lookup EXCEPT !.outcome = "miss", !.response = NoResponse]
        ELSE lookup

\* The create the frame is waiting for, as CachedLLMClient.create sees it.
CurrentLookup == CreateCached(client.full_model_name, cache, crun.messages)

WithinBound(response) ==
    Len(crun.calls) >= MaxCalls =>
        ~(crun.args.result_type # "tools"
          /\ LoopCondition(crun.args.autocomplete, response))

\* What an observer of one CachedLLMClient.create can see: its arguments,
\* the file and the number of wrapped calls before it, what it returned.
Observed(lookup, returned) ==
    Some([full_model_name |-> client.full_model_name,
          request |-> lookup.messages_dump,
          cache_path |-> lookup.cache_path,
          before |-> cache[lookup.cache_path],
          calls_before |-> Len(wrapped_calls),
          returned |-> returned])

WrappedCall(response, raised) ==
    [full_model_name |-> client.full_model_name,
     call |-> crun.calls[Len(crun.calls)],
     raised |-> raised,
     response |-> response]

\* Lines 589-591 (634-636): the lookup hits and create returns the entry.
CachedCreateHit ==
    /\ crun.pc = "awaiting"
    /\ CurrentLookup.outcome = "hit"
    /\ WithinBound(CurrentLookup.response)
    /\ crun' = HandleResponse(client.variant, default_max_tokens, crun,
                              CurrentLookup.response)
    /\ last' = Observed(CurrentLookup, Some(CurrentLookup.response))
    /\ UNCHANGED <<previous, json_call, default_max_tokens, run, responses, cache, client,
                   wrapped_calls, invocations, threads>>

\* Lines 589-594 (634-639): the lookup misses, the wrapped client's create
\* returns `response`, the entry is saved and the response returned.
CachedCreateMiss(response) ==
    /\ crun.pc = "awaiting"
    /\ CurrentLookup.outcome = "miss"
    /\ WithinBound(response)
    /\ wrapped_calls' = Append(wrapped_calls, WrappedCall(response, FALSE))
    /\ cache' = SaveCache(cache, CurrentLookup.cache_path, client.full_model_name,
                          CurrentLookup.messages_dump, response)
    /\ crun' = HandleResponse(client.variant, default_max_tokens, crun, response)
    /\ last' = Observed(CurrentLookup, Some(response))
    /\ UNCHANGED <<previous, json_call, default_max_tokens, run, responses, client,
                   invocations, threads>>

\* Mutant: the entry is written before the wrapped client is called, with
\* no Response in it yet.
CachedCreateMissRaisesAfterSave ==
    /\ crun.pc = "awaiting"
    /\ CurrentLookup.outcome = "miss"
    /\ wrapped_calls' = Append(wrapped_calls, WrappedCall(NoResponse, TRUE))
    /\ cache' = SaveCache(cache, CurrentLookup.cache_path, client.full_model_name,
                          CurrentLookup.messages_dump, NoResponse)
    /\ crun' = HandleRaise(crun)
    /\ last' = Observed(CurrentLookup, None)
    /\ UNCHANGED <<previous, json_call, default_max_tokens, run, responses, client,
                   invocations, threads>>

\* Lines 589-592 (634-637): the lookup misses and the wrapped client's
\* create raises; the exception leaves create before save_cache.
CachedCreateMissRaises ==
    /\ crun.pc = "awaiting"
    /\ CurrentLookup.outcome = "miss"
    /\ wrapped_calls' = Append(wrapped_calls, WrappedCall(NoResponse, TRUE))
    /\ crun' = HandleRaise(crun)
    /\ last' = Observed(CurrentLookup, None)
    /\ UNCHANGED <<previous, json_call, default_max_tokens, run, responses, cache, client,
                   invocations, threads>>

\* Lines 634-637: the task running CachedLLMClientAsync.create is cancelled
\* while it is suspended in `await self.llm_client.create(...)`, the only
\* await of create; CancelledError leaves create before save_cache.
CachedCreateCancelled ==
    /\ crun.pc = "awaiting"
    /\ client.variant = "async"
    /\ CurrentLookup.outcome = "miss"
    /\ wrapped_calls' = Append(wrapped_calls, WrappedCall(NoResponse, TRUE))
    /\ crun' = Finish(crun, Raised("CancelledError"))
    /\ last' = Observed(CurrentLookup, None)
    /\ UNCHANGED <<previous, json_call, default_max_tokens, run, responses, cache, client,
                   invocations, threads>>

NextCache ==
    \/ \E name \in FullModelNames, args \in CacheArgChoices,
          messages \in CacheConversations : CachedCreateValue(name, args, messages)
    \/ CachedCreateHit
    \/ \E response \in WrappedResponses : CachedCreateMiss(response)
    \/ CachedCreateMissRaises
    \/ CachedCreateCancelled

SpecCache == InitCache /\ [][NextCache]_vars

----------------------------------------------------------------------------
(* Claims about the cache layer (specification SpecCache) *)

CallRequest(k) == MessagesDump(wrapped_calls[k].call.messages)

\* The wrapped calls among the first n that returned, and so were saved,
\* under cache_path.
StoresAt(cache_path, n) ==
    { k \in 1..n :
        /\ ~wrapped_calls[k].raised
        /\ CachePath(wrapped_calls[k].full_model_name, CallRequest(k)) = cache_path }

\* The last of them; 0 when there is none.
LatestStore(cache_path, n) ==
    IF StoresAt(cache_path, n) = {} THEN 0 ELSE Max(StoresAt(cache_path, n))

\* Before the observed create, the entry at its path was last stored for
\* its own request, by wrapped call k.
StoredFor(l, k) ==
    /\ k > 0
    /\ wrapped_calls[k].full_model_name = l.full_model_name
    /\ CallRequest(k) = l.request

StoredResponse(cache_path) ==
    ResponseLoad(JsonLoad(Get(cache[cache_path])).value.fields.response)

FoundMismatch(l) ==
    /\ l.before # None
    /\ JsonLoad(Get(l.before)).ok
    /\ LET recorded == JsonLoad(Get(l.before)).value.fields IN
       \/ recorded.full_model_name # JName(l.full_model_name)
       \/ recorded.request # l.request

\* C8: an entry recorded for another model identifier or another
\* conversation at the same file path is never a hit: the wrapped client
\* is called, and what create returns is what that call returned.
C8_MissOnMismatch ==
    last # None =>
        LET l == Get(last)
            n == Len(wrapped_calls)
        IN  FoundMismatch(l) =>
                /\ n = l.calls_before + 1
                /\ wrapped_calls[n].full_model_name = l.full_model_name
                /\ CallRequest(n) = l.request
                /\ l.returned = IF wrapped_calls[n].raised THEN None
                                ELSE Some(wrapped_calls[n].response)

\* C8 witness: a lookup under one model identifier found the entry another
\* identifier recorded for the same conversation, and the wrapped client
\* was called.
C8_Witness ==
    /\ last # None
    /\ FoundMismatch(Get(last))
    /\ JsonLoad(Get(Get(last).before)).value.fields.request = Get(last).request
    /\ Len(wrapped_calls) = Get(last).calls_before + 1

\* Wrapped call j was made for the request of the observed create and
\* ended in an exception, and nothing was stored at the path from then to
\* the observed create.
FailedBefore(l, j) ==
    /\ wrapped_calls[j].raised
    /\ wrapped_calls[j].full_model_name = l.full_model_name
    /\ CallRequest(j) = l.request
    /\ LatestStore(l.cache_path, l.calls_before) < j

\* C21: a create that misses and whose wrapped call raises, or is cancelled
\* while suspended in it, leaves the file of its request as it found it; a
\* later create for the same request, with nothing stored at its path in
\* between, misses again and calls the wrapped client for that request.
C21_NoWriteOnFailure ==
    last # None =>
        LET l == Get(last)
            n == Len(wrapped_calls)
        IN  /\ (n = l.calls_before + 1 /\ wrapped_calls[n].raised)
                => /\ cache[l.cache_path] = l.before
                   /\ l.returned = None
            /\ (\E j \in 1..l.calls_before : FailedBefore(l, j))
                => /\ n = l.calls_before + 1
                   /\ wrapped_calls[n].full_model_name = l.full_model_name
                   /\ CallRequest(n) = l.request

\* C21 witness: on the suspending client the wrapped call of a create
\* failed and left no file; the same request missed again and the wrapped
\* client answered it.
C21_Witness ==
    /\ last # None
    /\ crun.pc = "done"
    /\ Get(last).calls_before = 1
    /\ FailedBefore(Get(last), 1)
    /\ Get(last).before = None
    /\ Get(last).returned = Some(wrapped_calls[2].response)
    /\ ~wrapped_calls[2].raised
    /\ client.variant = "async"

\* The current invocation repeats the earlier invocation p: same client
\* model, same arguments, the same original conversation; p ran with
\* autocomplete and result shape none and returned.
Replays(p) ==
    /\ crun.pc # "idle"
    /\ p.frame.pc = "done"
    /\ p.frame.args.autocomplete
    /\ p.frame.args.result_type = "none"
    /\ client.full_model_name = p.full_model_name
    /\ crun.args = p.frame.args
    /\ crun.calls[1].messages = p.frame.calls[1].messages

\* The files of the requests of p have been written for those requests
\* only: no other request was stored under their names.
EntriesIntact(p) ==
    \A k \in 1..Len(p.frame.calls) : \A j \in 1..Len(wrapped_calls) :
        (/\ ~wrapped_calls[j].raised
         /\ CachePath(wrapped_calls[j].full_model_name, CallRequest(j))
                = CachePath(p.full_model_name, MessagesDump(p.frame.calls[k].messages)))
        => /\ wrapped_calls[j].full_model_name = p.full_model_name
           /\ CallRequest(j) = MessagesDump(p.frame.calls[k].messages)

\* C22: an invocation that repeats, on a fresh copy of the original
\* conversation, an invocation with autocomplete and result shape none that
\* returned through the cached client, and finds that invocation's entries
\* in place, reaches the wrapped client with no call, does not fail, and
\* returns after the same calls and merges with the same conversation and
\* the same text.
C22_CachedReplay ==
    \A i \in 1..Len(previous) :
        (Replays(previous[i]) /\ EntriesIntact(previous[i]))
        => /\ Len(wrapped_calls) = previous[Len(previous)].wrapped
           /\ crun.pc # "failed"
           /\ crun.pc = "done" =>
                  /\ Len(crun.calls) = Len(previous[i].frame.calls)
                  /\ crun.merges = previous[i].frame.merges
                  /\ crun.messages = previous[i].frame.messages
                  /\ crun.result = previous[i].frame.result

\* C22 witness: an invocation that made two wrapped calls and one merge was
\* repeated and returned the same text with no further wrapped call.
C22_Witness ==
    /\ Len(previous) = 1
    /\ Replays(previous[1])
    /\ EntriesIntact(previous[1])
    /\ previous[1].frame.merges = 1
    /\ previous[1].wrapped = 2
    /\ crun.pc = "done"
    /\ crun.merges = 1
    /\ Len(wrapped_calls) = 2
    /\ crun.result = previous[1].frame.result

----------------------------------------------------------------------------
(* Single calls for one conversation under one model identifier that      *)
(* differ in their other parameters (specification SpecParams).           *)

\* create_value arguments that differ in result_type, max_tokens,
\* thinking_config, system_message, tools and tool_choice_mode.
ParamArgChoices ==
    { a \in ArgChoices :
        /\ ~a.autocomplete
        /\ <<a.result_type, a.max_tokens, a.thinking_config, a.tool_choice_mode>>
               \in { <<"none", None, None, "NONE">>,
                     <<"json", None, None, "NONE">>,
                     <<"tools", Some(5), None, "ANY">>,
                     <<"schema", None, Some("tc"), "NONE">> } }

NextParams ==
    \/ \E args \in ParamArgChoices : CachedCreateValue("p:m1", args, <<UserEntry>>)
    \/ CachedCreateHit
    \/ \E response \in WrappedResponses : CachedCreateMiss(response)
    \/ CachedCreateMissRaises

SpecParams == InitCache /\ [][NextParams]_vars

\* The observed create was for the request of wrapped call k, which stored
\* the entry at its path, and was made with other parameters than call k.
SameRequestOtherParameters(l, k) ==
    /\ StoredFor(l, k)
    /\ Len(crun.calls) = 1
    /\ Parameters(crun.calls[1]) # Parameters(wrapped_calls[k].call)

\* C20: a create whose model identifier and conversation are those of the
\* call that stored the entry, and whose result_type, system_message,
\* max_tokens, thinking_config, tools or tool_config differ from that
\* call's, is answered with the stored Response and reaches the wrapped
\* client with no call.
C20_LookupIgnoresParameters ==
    last # None =>
        LET l == Get(last)
            k == LatestStore(l.cache_path, l.calls_before)
        IN  SameRequestOtherParameters(l, k) =>
                /\ l.returned = Some(wrapped_calls[k].response)
                /\ Len(wrapped_calls) = l.calls_before

\* C20 witness: a call with result shape json was answered from the entry
\* a call with result shape none had stored.
C20_Witness ==
    /\ last # None
    /\ SameRequestOtherParameters(Get(last),
                                  LatestStore(Get(last).cache_path, Get(last).calls_before))
    /\ crun.calls[1].result_type = "json"
    /\ wrapped_calls[Len(wrapped_calls)].call.result_type = "none"
    /\ Get(last).returned = Some(wrapped_calls[Len(wrapped_calls)].response)

----------------------------------------------------------------------------
(* A cache_dir that already holds a file of arbitrary content when a       *)
(* cached client is used (specification SpecCorrupt).                      *)

GoodEntry == EntryTokens("p:m1", MessagesDump(<<UserEntry>>),
                         ModelResponse(Some(<<TextPart(<<"1">>)>>), "STOP", None))

\* A record with the three fields given.
RecordTokens(full_model_name, request, response) ==
    <<TOpen, TField("full_model_name", full_model_name), TField("request", request),
      TField("response", response), TClose>>

\* Contents of an existing cache file.
FileContents ==
    { GoodEntry,
      <<>>,
      SubSeq(GoodEntry, 1, 5),
      GoodEntry \o <<TClose>>,
      <<TAtom(JNull)>>,
      <<TAtom(JArray(<<>>))>>,
      <<TAtom(JNumber(1))>>,
      <<TOpen, TClose>>,
      <<TOpen, TField("full_model_name", JName("p:m1")), TClose>>,
      <<TOpen, TField("full_model_name", JName("p:m1")),
        TField("request", MessagesDump(<<UserEntry>>)), TClose>>,
      RecordTokens(JName("p:m2"), MessagesDump(<<UserEntry>>), JNull),
      RecordTokens(JName("p:m1"), JArray(<<>>), JNull),
      RecordTokens(JName("p:m1"), MessagesDump(<<UserEntry>>), JNull),
      RecordTokens(JName("p:m1"), MessagesDump(<<UserEntry>>), JArray(<<>>)),
      RecordTokens(JName("p:m1"), MessagesDump(<<UserEntry>>),
                   JObject([candidates |-> JNumber(1), parsed |-> JNull])) }

InitCorrupt ==
    /\ default_max_tokens = None
    /\ EngineIdle
    /\ \E content \in FileContents :
           cache = [path \in CachePaths |->
                       IF path = CachePath("p:m1", MessagesDump(<<UserEntry>>))
                       THEN Some(content) ELSE None]
    /\ crun = IdleFrame
    /\ client \in {[NoClient EXCEPT !.variant = v] : v \in Variants}
    /\ wrapped_calls = <<>>
    /\ last = None
    /\ invocations = MaxInvocations - 1
    /\ threads = <<>>
    /\ previous = <<>>

\* Lines 589 (634): an exception of create_cached leaves create, and
\* create_value with it.
CachedCreateRaises ==
    /\ crun.pc = "awaiting"
    /\ CurrentLookup.outcome = "raise"
    /\ crun' = Finish(crun, Raised(CurrentLookup.error))
    /\ last' = Observed(CurrentLookup, None)
    /\ UNCHANGED <<previous, json_call, default_max_tokens, run, responses, cache, client,
                   wrapped_calls, invocations, threads>>

NextCorrupt ==
    \/ \E name \in FullModelNames, args \in CacheArgChoices,
          messages \in CacheConversations : CachedCreateValue(name, args, messages)
    \/ CachedCreateHit
    \/ \E response \in WrappedResponses : CachedCreateMiss(response)
    \/ CachedCreateMissRaises
    \/ CachedCreateRaises

SpecCorrupt == InitCorrupt /\ [][NextCorrupt]_vars

\* The file holds a complete record made for this model identifier and
\* this request, with a response a Response can be built from.
IsEntryFor(file, full_model_name, request) ==
    LET loaded == JsonLoad(file) IN
    /\ loaded.ok
    /\ loaded.value.json = "object"
    /\ DOMAIN loaded.value.fields = {"full_model_name", "request", "response"}
    /\ loaded.value.fields.full_model_name = JName(full_model_name)
    /\ loaded.value.fields.request = request
    /\ loaded.value.fields.response.json = "object"
    /\ ValidResponse(loaded.value.fields.response)

\* C10: whatever an existing cache file holds, if it is not a usable entry
\* for the request then create_cached reports a miss without raising and
\* create goes on to call the wrapped client.
C10_CorruptionIsAMiss ==
    last # None =>
        LET l == Get(last) IN
        (l.before # None /\ ~IsEntryFor(Get(l.before), l.full_model_name, l.request))
        => Len(wrapped_calls) = l.calls_before + 1

----------------------------------------------------------------------------
(* Threads that call CachedLLMClient.create for one request at the same    *)
(* time (specification SpecRace).  Nothing in create, create_cached or     *)
(* save_cache takes a lock, so the steps of the threads interleave at the  *)
(* file operations: the lookup, open(cache_path, 'wt'), each write the     *)
(* buffered file object flushes, and the close.                            *)

Threads == 1..NumThreads

RaceName == "p:m1"

RaceMessages == <<UserEntry>>

RacePath == CachePath(RaceName, MessagesDump(RaceMessages))

\* Two answers a provider may give to the one request.
RaceResponses ==
    { ModelResponse(Some(<<TextPart(<<"a">>)>>), "STOP", Some("obj")),
      ModelResponse(Some(<<TextPart(<<"1">>)>>), "STOP", Some("one")) }

\* What fills a file between its end and the offset of a write behind it.
TNul == [tok |-> "nul"]

IdleThread == [pc |-> "start", response |-> NoResponse, tokens |-> <<>>,
               pos |-> 0, returned |-> None]

InitRace ==
    /\ default_max_tokens = None
    /\ EngineIdle
    /\ cache = [path \in CachePaths |-> None]
    /\ crun = IdleFrame
    /\ client = [NoClient EXCEPT !.full_model_name = RaceName]
    /\ wrapped_calls = <<>>
    /\ last = None
    /\ invocations = 0
    /\ threads = [t \in Threads |-> IdleThread]
    /\ previous = <<>>

race_frame == <<previous, json_call, default_max_tokens, run, responses, crun, client,
               wrapped_calls,
                last, invocations>>

\* Line 589: create_cached reads the file as it is now.
RaceLookup(t) ==
    /\ threads[t].pc = "start"
    /\ LET lookup == CreateCached(RaceName, cache, RaceMessages) IN
       threads' = [threads EXCEPT
                      ![t].pc = IF lookup.outcome = "hit" THEN "done"
                                ELSE IF lookup.outcome = "miss" THEN "calling"
                                ELSE "raised",
                      ![t].returned = IF lookup.outcome = "hit"
                                      THEN Some(lookup.response) ELSE None]
    /\ UNCHANGED <<cache, race_frame>>

\* Line 592: the wrapped client's create returns `response`.
RaceWrappedReturns(t, response) ==
    /\ threads[t].pc = "calling"
    /\ threads' = [threads EXCEPT
                      ![t].pc = "saving",
                      ![t].response = response,
                      ![t].tokens = EntryTokens(RaceName, MessagesDump(RaceMessages),
                                                response)]
    /\ UNCHANGED <<cache, race_frame>>

\* Line 618: open(cache_path, 'wt') creates the file or cuts it to length 0.
RaceOpen(t) ==
    /\ threads[t].pc = "saving"
    /\ cache' = [cache EXCEPT ![RacePath] = Some(<<>>)]
    /\ threads' = [threads EXCEPT ![t].pc = "writing", ![t].pos = 0]
    /\ UNCHANGED race_frame

\* The file after `written` is put at offset pos of it.
WriteAt(file, pos, written) ==
    LET end == pos + Len(written)
        length == IF Len(file) > end THEN Len(file) ELSE end
    IN  [i \in 1..length |->
            IF i > pos /\ i <= end THEN written[i - pos]
            ELSE IF i <= Len(file) THEN file[i]
            ELSE TNul]

\* Line 619: one flush of the file object writes the next n tokens at the
\* thread's own offset; the flush of the last token is the close, after
\* which create returns the response (line 594).
RaceWrite(t, n) ==
    /\ threads[t].pc = "writing"
    /\ n <= Len(threads[t].tokens) - threads[t].pos
    /\ cache' = [cache EXCEPT ![RacePath] =
                    Some(WriteAt(Get(@), threads[t].pos,
                                 SubSeq(threads[t].tokens, threads[t].pos + 1,
                                        threads[t].pos + n)))]
    /\ threads' = [threads EXCEPT
                      ![t].pos = @ + n,
                      ![t].pc = IF threads[t].pos + n = Len(threads[t].tokens)
                                THEN "done" ELSE "writing",
                      ![t].returned = IF threads[t].pos + n = Len(threads[t].tokens)
                                      THEN Some(threads[t].response) ELSE None]
    /\ UNCHANGED race_frame

NextRace ==
    \/ \E t \in Threads : RaceLookup(t)
    \/ \E t \in Threads, response \in RaceResponses : RaceWrappedReturns(t, response)
    \/ \E t \in Threads : RaceOpen(t)
    \/ \E t \in Threads, n \in 1..Len(GoodEntry) : RaceWrite(t, n)

SpecRace == InitRace /\ [][NextRace]_vars

\* The responses handed to save_cache so far.
Written == { threads[w].response : w \in {t \in Threads : threads[t].tokens # <<>>} }

\* C9: whatever the interleaving of writers and readers of one key, a
\* reader that does not miss gets a Response that some writer stored.
C9_AtomicVisibility ==
    \A t \in Threads :
        (threads[t].pc = "done" /\ threads[t].tokens = <<>>)
        => Get(threads[t].returned) \in Written

----------------------------------------------------------------------------
(* BaseLLMClient.as_json called on texts of up to MaxTextLen characters    *)
(* (specification SpecJson).                                               *)

RECURSIVE TextsOfLength(_)
TextsOfLength(n) ==
    IF n = 0 THEN { <<>> }
    ELSE { Append(t, c) : t \in TextsOfLength(n - 1), c \in Chars }

Texts == UNION { TextsOfLength(n) : n \in 0..MaxTextLen }

InitJson ==
    /\ default_max_tokens = None
    /\ run = [v \in Variants |-> IdleFrame]
    /\ responses = <<>>
    /\ CacheIdle
    /\ json_call \in { [text |-> t, result |-> NoResult] : t \in Texts }

\* as_json(text) runs to its return or its raise.
AsJsonCall ==
    /\ json_call.result = NoResult
    /\ json_call' = [json_call EXCEPT !.result = AsJson(Some(json_call.text))]
    /\ UNCHANGED <<default_max_tokens, run, responses, cache_vars>>

NextJson == AsJsonCall

SpecJson == InitJson /\ [][NextJson]_vars

\* The whole trimmed text is one fenced block: it opens with a fence and
\* closes with a fence.
WhollyFenced(t) == Len(t) >= 2 /\ t[1] = "F" /\ t[Len(t)] = "F"

\* What parsing a text as it stands gives.
ParsedUnchanged(t) ==
    IF JsonLoads(t) = None
    THEN Raised("ValueError: Failed to parse LLM response as JSON")
    ELSE Returned(Get(JsonLoads(t)))

\* C18: as_json takes the body of a fenced block only when the whole
\* trimmed text is that block; a text that has other characters around a
\* fenced block is parsed as it stands.
C18_FenceOnlyWhenWholeText ==
    (json_call.result # NoResult /\ ~WhollyFenced(Strip(json_call.text)))
    => json_call.result = ParsedUnchanged(Strip(json_call.text))

====
